---------------------------- MODULE Spec2Model ----------------------------
(***************************************************************************)
(* A model of logr's RotatingWriter (src/logr.go, the revision with        *)
(* compression, lines 147-415): an io.Writer over one *os.File that        *)
(* renames the active file away when a size threshold or a day change is   *)
(* met, optionally gzips the renamed file, and reopens a fresh file.       *)
(*                                                                         *)
(* Spec      the operations as whole, lock-protected handlers, one caller. *)
(* SpecFaults  the same, on a filesystem whose calls may fail.              *)
(* SpecConc  the same code cut at its lock, rotate and file-write steps,   *)
(*           run by several goroutines.                                    *)
(* SpecNames    makeDestName called on writers whose fields are given.     *)
(* SpecSetters  sequences of setter calls on a writer just made.           *)
(*                                                                         *)
(* Representation.  A path is a sequence of one-character strings; a       *)
(* formatted time is a sequence of string tokens, so a destination name is *)
(* their concatenation.  A file's content is a sequence of bytes; the disk *)
(* is a function from the names that exist to contents.  Time is counted   *)
(* in minutes since 2025-01-01 00:00 UTC (2025: not a leap year); the      *)
(* process's local zone is UTC + tz minutes.                               *)
(***************************************************************************)
EXTENDS Integers, Sequences, FiniteSets, TLC

VARIABLES
    fs,           \* the disk: [names that exist -> content]
    now,          \* the clock, minutes since 2025-01-01 00:00 UTC
    tz,           \* offset of the local zone from UTC, in minutes
    constructed,  \* "none" | "ok" | "error" | "panic": outcome of the constructor
    filename,     \* RotatingWriter.filename
    file,         \* RotatingWriter.file: the handle
    currentSize,  \* RotatingWriter.currentSize
    startDate,    \* RotatingWriter.startDate
    timeFormat,   \* RotatingWriter.timeFormat (<<>> is the empty string)
    prefix,       \* RotatingWriter.prefix
    daily,        \* RotatingWriter.daily
    compress,     \* RotatingWriter.compress
    maxSize,      \* RotatingWriter.maxSize
    lock,         \* RotatingWriter.lock: 0 when free, else the holder
    pc,           \* SpecConc: each goroutine's position
    call,         \* SpecConc: each goroutine's call in progress
    last,         \* the last completed call: its arguments, results and what it did
    history,      \* every rotation that succeeded so far, oldest first
                  \* (SpecSetters: every setter call made so far)
    nwrites,      \* calls to Write so far
    nticks,       \* clock advances so far
    nfaults,      \* filesystem failures so far
    ncalls        \* SpecConc: calls the goroutines have made so far

vars == <<fs, now, tz, constructed, filename, file, currentSize, startDate,
          timeFormat, prefix, daily, compress, maxSize, lock, pc, call,
          last, history, nwrites, nticks, nfaults, ncalls>>

-----------------------------------------------------------------------------
(* Bounds of the model *)

MaxWrites == 2
MaxTicks == 1
MaxFaults == 1
MaxCalls == 3
MaxSetterCalls == 4

-----------------------------------------------------------------------------
(* Time: package time as the code uses it *)

MinutesPerDay == 24 * 60

MonthLen == <<31, 28, 31, 30, 31, 30, 31, 31, 30, 31, 30, 31>>

RECURSIVE MonthDay(_, _)
\* <<month, day of month>> of the day numbered doy (0 = 1 January), from month m on
MonthDay(doy, m) ==
    IF doy < MonthLen[m] THEN <<m, doy + 1>>
    ELSE MonthDay(doy - MonthLen[m], m + 1)

\* The wall clock of instant t in the process's local zone
Local(t) == t + tz
Year(t) == 2025 + (Local(t) \div MinutesPerDay) \div 365
Month(t) == MonthDay((Local(t) \div MinutesPerDay) % 365, 1)[1]
\* time.Time.Day: the day of the month
Day(t) == MonthDay((Local(t) \div MinutesPerDay) % 365, 1)[2]
Hour(t) == (Local(t) % MinutesPerDay) \div 60
Minute(t) == Local(t) % 60
\* The calendar date, for stating what a day is
Date(t) == <<Year(t), Month(t), Day(t)>>

\* time.Time.Truncate(24h): rounds the absolute time down, that is to 00:00 UTC
Truncate24h(t) == t - (t % MinutesPerDay)

Pad2(n) == IF n < 10 THEN "0" \o ToString(n) ELSE ToString(n)

\* The reference-time tokens of a layout and what each prints
FormatToken(t, tok) ==
    CASE tok = "2006" -> ToString(Year(t))
      [] tok = "01" -> Pad2(Month(t))
      [] tok = "02" -> Pad2(Day(t))
      [] tok = "15" -> Pad2(Hour(t))
      [] tok = "04" -> Pad2(Minute(t))
      [] OTHER -> tok

\* time.Time.Format, on a layout cut into its tokens
Format(t, layout) == [i \in 1..Len(layout) |-> FormatToken(t, layout[i])]

\* const TimeFormat = "2006-01-02_1504"
TimeFormat == <<"2006", "-", "01", "-", "02", "_", "15", "04">>
\* the layout of TestRotateMaxSizeCustomTimeFormat, "2006__01__02"
DateLayout == <<"2006", "__", "01", "__", "02">>

-----------------------------------------------------------------------------
(* Names *)

RECURSIVE ExtFrom(_, _)
ExtFrom(path, i) ==
    IF i < 1 THEN <<>>
    ELSE IF path[i] = "/" THEN <<>>
    ELSE IF path[i] = "." THEN SubSeq(path, i, Len(path))
    ELSE ExtFrom(path, i - 1)

\* filepath.Ext: from the last dot of the last path element on
Ext(path) == ExtFrom(path, Len(path))

\* The name with the time always at the end, whatever prefix says
makeDestName_Suffix(fn, sd, tf, pfx) ==
    fn \o <<".">> \o Format(sd, IF tf # <<>> THEN tf ELSE TimeFormat)

makeDestName(fn, sd, tf, pfx) ==
    LET layout == IF tf # <<>> THEN tf ELSE TimeFormat
        ext == Ext(fn)
        name == SubSeq(fn, 1, Len(fn) - Len(ext))
    IN IF pfx THEN name \o <<".">> \o Format(sd, layout) \o ext
       ELSE fn \o <<".">> \o Format(sd, layout)

-----------------------------------------------------------------------------
(* The disk *)

Exists(f, name) == name \in DOMAIN f

PutFile(f, name, content) ==
    [n \in DOMAIN f \cup {name} |-> IF n = name THEN content ELSE f[n]]

\* os.Rename: replaces whatever is at dst
Rename(f, src, dst) ==
    [n \in (DOMAIN f \ {src}) \cup {dst} |-> IF n = dst THEN f[src] ELSE f[n]]

\* os.Remove
Remove(f, name) == [n \in DOMAIN f \ {name} |-> f[n]]

\* ioutil.TempFile(os.TempDir(), "tmp"): a name in the temp directory that is free
TempName(f) ==
    LET k == CHOOSE i \in 0..Cardinality(DOMAIN f) :
                 /\ <<"$TMP", "/", "tmp", ToString(i)>> \notin DOMAIN f
                 /\ \A j \in 0..(i - 1) : <<"$TMP", "/", "tmp", ToString(j)>> \in DOMAIN f
    IN <<"$TMP", "/", "tmp", ToString(k)>>

-----------------------------------------------------------------------------
(* compress/gzip: a header, the data run-length coded, the length as trailer *)

RECURSIVE RunLen(_, _)
\* the length of the run of equal bytes that starts c, counted from position i
RunLen(c, i) ==
    IF i < Len(c) /\ c[i + 1] = c[1] THEN RunLen(c, i + 1) ELSE i

RECURSIVE Deflate(_)
Deflate(c) ==
    IF c = <<>> THEN <<>>
    ELSE LET r == RunLen(c, 1)
         IN <<r, c[1]>> \o Deflate(SubSeq(c, r + 1, Len(c)))

RECURSIVE Inflate(_)
Inflate(z) ==
    IF Len(z) < 2 THEN <<>>
    ELSE [i \in 1..z[1] |-> z[2]] \o Inflate(SubSeq(z, 3, Len(z)))

\* gzip.NewWriter + io.Copy + Close
Gzip(c) == <<31, 139>> \o Deflate(c) \o <<Len(c)>>

IsGzip(z) ==
    /\ Len(z) >= 3
    /\ z[1] = 31 /\ z[2] = 139
    /\ (Len(z) - 3) % 2 = 0
    /\ Len(Inflate(SubSeq(z, 3, Len(z) - 1))) = z[Len(z)]

\* gzip.NewReader + ioutil.ReadAll (as in TestRotateWithCompression)
Gunzip(z) == Inflate(SubSeq(z, 3, Len(z) - 1))

-----------------------------------------------------------------------------
(* The handle: *os.File *)

\* No writer, and so no handle, exists (a nil *RotatingWriter)
NoHandle == [open |-> FALSE, append |-> FALSE, offset |-> 0]

\* The handle os.OpenFile returns: positioned at 0; O_APPEND makes every write
\* go to the end of the file whatever the position
OpenHandle(app) == [open |-> TRUE, append |-> app, offset |-> 0]

\* The position at which handle h writes into a file of content c
WritePos(h, c) == IF h.append THEN Len(c) ELSE h.offset

\* c with the bytes d written at position pos
Overwrite(c, pos, d) ==
    SubSeq(c, 1, pos) \o d \o SubSeq(c, pos + Len(d) + 1, Len(c))

-----------------------------------------------------------------------------
(* A call in progress carries the part of the state it changes:            *)
(*   fs, file, currentSize, startDate  as the variables                    *)
(*   err    "nil" or the step that failed                                  *)
(*   n      the count Write returns                                        *)
(*   rots   the rotations this call attempted                              *)
(*   hit    the injected failure has happened                              *)
(* A failure to inject is <<step, k>>: the step of the k-th rotate call of *)
(* this Write, or <<"write", n>>: the file write stops after n bytes.      *)
(***************************************************************************)

NoFault == <<"none", 0>>

RotateSteps == {"close", "stat", "rename", "gzopen", "tempfile", "copy",
                "gzrename", "remove", "reopen"}

Begin == [fs |-> fs, file |-> file, currentSize |-> currentSize,
          startDate |-> startDate, err |-> "nil", n |-> 0, rots |-> <<>>,
          hit |-> FALSE]

\* A failure that also resets the count
Failed_Reset(s, step, injected) ==
    [s EXCEPT !.err = step, !.hit = s.hit \/ injected, !.currentSize = 0]

Failed(s, step, injected) ==
    [s EXCEPT !.err = step, !.hit = s.hit \/ injected]

\* A Close that leaves the handle usable
Closed_StaysOpen(s) == s

\* rotate, line 307: w.file.Close()
Closed(s) == [s EXCEPT !.file.open = FALSE]

\* rotate, lines 307-320: close the handle, look at the destination, rename
renameStep(s, destName, fault) ==
    IF fault = "close" \/ ~s.file.open
    THEN Failed(Closed(s), "close", fault = "close")
    ELSE IF fault = "stat" THEN Failed(Closed(s), "stat", TRUE)
    ELSE IF fault = "rename" \/ ~Exists(s.fs, filename)
         THEN Failed(Closed(s), "rename", fault = "rename")
    ELSE [Closed(s) EXCEPT !.fs = Rename(s.fs, filename, destName)]

\* gzip (lines 381-399): a temp file, the compressed copy into it; the deferred
\* z.Close ends the stream before the function returns
gzip(s, destName, tmp, fault) ==
    IF fault = "tempfile" THEN Failed(s, "tempfile", TRUE)
    ELSE IF fault = "copy"
         THEN Failed([s EXCEPT !.fs = PutFile(s.fs, tmp, Gzip(<<>>))], "copy", TRUE)
    ELSE [s EXCEPT !.fs = PutFile(s.fs, tmp, Gzip(s.fs[destName]))]

\* compressFile, lines 373-378: the temp file becomes destName.gz
gzRename(s, destName, tmp, fault) ==
    IF s.err # "nil" THEN s
    ELSE IF fault = "gzrename" THEN Failed(s, "gzrename", TRUE)
    ELSE [s EXCEPT !.fs = Rename(s.fs, tmp, destName \o <<".gz">>)]

\* compressFile (lines 352-379)
compressFile(s, destName, fault) ==
    IF fault = "gzopen" \/ ~Exists(s.fs, destName)
    THEN Failed(s, "gzopen", fault = "gzopen")
    ELSE gzRename(gzip(s, destName, TempName(s.fs), fault),
                  destName, TempName(s.fs), fault)

\* The rotated file left in place beside its compressed copy
removeRotated_Keep(s, destName, fault) == s

\* rotate, lines 330-332: os.Remove(destName)
removeRotated(s, destName, fault) ==
    IF s.err # "nil" THEN s
    ELSE IF fault = "remove" THEN Failed(s, "remove", TRUE)
    ELSE [s EXCEPT !.fs = Remove(s.fs, destName)]

\* rotate, lines 322-333: if w.compress
compressStep(s, destName, fault) ==
    IF s.err = "nil" /\ compress
    THEN removeRotated(compressFile(s, destName, fault), destName, fault)
    ELSE s

\* rotate, line 335: w.startDate = time.Now().Truncate(time.Hour * 24)
advanceStartDate(s) ==
    IF s.err # "nil" THEN s ELSE [s EXCEPT !.startDate = Truncate24h(now)]

\* The new file installed without the count being reset
install_KeepCount(s, fault) ==
    IF s.err # "nil" THEN s
    ELSE IF fault = "reopen" THEN Failed(s, "reopen", TRUE)
    ELSE [s EXCEPT !.fs = IF Exists(s.fs, filename) THEN s.fs
                          ELSE PutFile(s.fs, filename, <<>>),
                   !.file = OpenHandle(FALSE)]

\* rotate, lines 338-346: open (or create) filename, install it, reset the count
install(s, fault) ==
    IF s.err # "nil" THEN s
    ELSE IF fault = "reopen" THEN Failed(s, "reopen", TRUE)
    ELSE [s EXCEPT !.fs = IF Exists(s.fs, filename) THEN s.fs
                          ELSE PutFile(s.fs, filename, <<>>),
                   !.file = OpenHandle(FALSE),
                   !.currentSize = 0]

\* rotate, lines 307-336: everything before the new file is opened
retire(s, destName, fault) ==
    advanceStartDate(compressStep(renameStep(s, destName, fault), destName, fault))

\* rotate, line 312
DestName(s) == makeDestName(filename, s.startDate, timeFormat, prefix)

\* The failure, if any, to inject into the rotate call that starts in s
FaultOf(s, inj) ==
    IF inj[2] = Len(s.rots) + 1 /\ inj[1] \in RotateSteps THEN inj[1] ELSE "none"

\* What stands for the content where there is no file, and where a file is not
\* a gzip stream: no file holds a negative byte
Absent == <<0 - 1>>
NotGzip == <<0 - 2>>

\* The content of the file at name, Absent if there is none
ReadFile(f, name) == IF Exists(f, name) THEN f[name] ELSE Absent

\* The disk and the writer's fields that a call changes, in s
Fields(s) == [fs |-> s.fs, file |-> s.file, currentSize |-> s.currentSize,
              startDate |-> s.startDate]

\* s2 with the rotation that led to it from s noted: what it was called for, the
\* destination name, what the active file held, what is at the destination
\* name and at that name + ".gz" as rotate returns, and the disk and the
\* writer's fields as rotate was entered
Noted(s2, s, trigger) ==
    [s2 EXCEPT !.rots = Append(s.rots,
        [trigger |-> trigger, dest |-> DestName(s),
         prior |-> IF Exists(s.fs, filename) THEN s.fs[filename] ELSE <<>>,
         gz |-> compress, at |-> now, err |-> s2.err,
         plainAfter |-> ReadFile(s2.fs, DestName(s)),
         gzAfter |-> ReadFile(s2.fs, DestName(s) \o <<".gz">>),
         before |-> Fields(s)])]

\* rotate (lines 306-349), called for `trigger`; inj is the failure to inject
rotate(s, inj, trigger) ==
    Noted(install(retire(s, DestName(s), FaultOf(s, inj)), FaultOf(s, inj)),
          s, trigger)

-----------------------------------------------------------------------------
(* Write *)

\* Write, lines 282-284: the day test
DayTrigger(s) == daily /\ Day(now) # Day(s.startDate)

\* The size test with > for >=
SizeTrigger_Strict(s) == maxSize > -1 /\ s.currentSize > maxSize

\* The size test without its test of the sign of maxSize
SizeTrigger_Unsigned(s) == s.currentSize >= maxSize

\* Write, lines 291-292: the size test
SizeTrigger(s) == maxSize > -1 /\ s.currentSize >= maxSize

\* The value Write returns when rotate failed (lines 286 and 294)
RotateFailedCount == 0 - 1

\* Write, lines 282-289
dayStep(s, inj) ==
    IF DayTrigger(s) THEN rotate(s, inj, "day") ELSE s

\* Write, lines 291-297
sizeStep(s, inj) ==
    IF s.err = "nil" /\ SizeTrigger(s) THEN rotate(s, inj, "size") ELSE s

\* w.file.Write(b) on a handle that is closed
WriteClosed(s) == Failed([s EXCEPT !.n = 0], "write", FALSE)

\* w.file.Write(b) writing the first n bytes of b; fewer than len(b) is an error
WriteBytes(s, b, n, failed) ==
    [s EXCEPT !.fs = PutFile(s.fs, filename,
                             Overwrite(s.fs[filename],
                                       WritePos(s.file, s.fs[filename]),
                                       SubSeq(b, 1, n))),
              !.file.offset = WritePos(s.file, s.fs[filename]) + n,
              !.n = n,
              !.err = IF failed THEN "write" ELSE "nil",
              !.hit = s.hit \/ failed]

\* The count added only when the file write returned no error
addCount_OnSuccess(s) ==
    IF s.err = "nil" THEN [s EXCEPT !.currentSize = s.currentSize + s.n] ELSE s

\* Write, line 300: w.currentSize += int64(n)
addCount(s) == [s EXCEPT !.currentSize = s.currentSize + s.n]

\* Write, lines 299-302: the file write and the count
fileWrite(s, b, inj) ==
    IF s.err # "nil" THEN [s EXCEPT !.n = RotateFailedCount]
    ELSE IF ~s.file.open \/ ~Exists(s.fs, filename) THEN addCount(WriteClosed(s))
    ELSE IF inj[1] = "write" THEN addCount(WriteBytes(s, b, inj[2], TRUE))
    ELSE addCount(WriteBytes(s, b, Len(b), FALSE))

\* Write (lines 278-303), between Lock and Unlock
writeBody(b, inj) ==
    fileWrite(sizeStep(dayStep(Begin, inj), inj), b, inj)

\* The rotations of a call that succeeded
RECURSIVE Succeeded(_)
Succeeded(rots) ==
    IF rots = <<>> THEN <<>>
    ELSE (IF Head(rots).err = "nil" THEN <<Head(rots)>> ELSE <<>>)
         \o Succeeded(Tail(rots))

\* What is kept of a call to Write that ended in s
Record(op, b, s) ==
    [op |-> op, b |-> b, n |-> s.n, err |-> s.err, rots |-> s.rots,
     preSize |-> currentSize,
     prior |-> IF Exists(fs, filename) THEN fs[filename] ELSE <<>>,
     handle |-> file, existed |-> Exists(fs, filename),
     dayChanged |-> Date(now) # Date(startDate),
     sameDayOfMonth |-> Day(now) = Day(startDate)]

NoCall == [op |-> "none", b |-> <<>>, n |-> 0, err |-> "nil", rots |-> <<>>,
           preSize |-> 0, prior |-> <<>>, handle |-> NoHandle, existed |-> FALSE,
           dayChanged |-> FALSE, sameDayOfMonth |-> TRUE]

\* The buffers passed to Write
Buffers == {<<1>>, <<2, 3>>}

\* The failures that can be injected into Write(b)
WriteFaults(b) ==
    {NoFault}
    \cup (RotateSteps \X {1, 2})
    \cup {<<"write", n>> : n \in 0..(Len(b) - 1)}

\* Write returned with s
WriteReturns(b, s) ==
    /\ fs' = s.fs
    /\ file' = s.file
    /\ currentSize' = s.currentSize
    /\ startDate' = s.startDate
    /\ last' = Record("Write", b, s)
    /\ history' = history \o Succeeded(s.rots)
    /\ s.hit => nfaults < MaxFaults
    /\ nfaults' = IF s.hit THEN nfaults + 1 ELSE nfaults

\* inj is no failure, or one that happened
Injected(inj, s) == inj = NoFault \/ s.hit

Write(b, inj) ==
    /\ constructed = "ok"
    /\ lock = 0
    /\ nwrites < MaxWrites
    /\ Injected(inj, writeBody(b, inj))
    /\ WriteReturns(b, writeBody(b, inj))
    /\ nwrites' = nwrites + 1
    /\ UNCHANGED <<ncalls, now, tz, constructed, filename, timeFormat, prefix, daily,
                   compress, maxSize, lock, pc, call, nticks>>

-----------------------------------------------------------------------------
(* The setters, lines 236-276 *)

\* The thresholds passed to MaxSize
MaxSizes == {0 - 2, 0 - 1, 0, 2}

\* The layouts passed to TimeFormat
Layouts == {<<>>, DateLayout}

\* What a setter leaves alone, besides the other three policy fields
SetterFrame == UNCHANGED <<fs, filename, file, currentSize, startDate, compress>>

\* What is neither the disk nor a field of the writer, but for `last`
RestKept == UNCHANGED <<ncalls, now, tz, constructed, lock, pc, call, history,
                        nwrites, nticks, nfaults>>

\* Daily, line 243: w.daily = true
setDaily ==
    /\ daily' = TRUE
    /\ UNCHANGED <<timeFormat, prefix, maxSize>>
    /\ SetterFrame

\* MaxSize, line 253: w.maxSize = s
setMaxSize(s) ==
    /\ maxSize' = s
    /\ UNCHANGED <<timeFormat, prefix, daily>>
    /\ SetterFrame

\* TimeFormat, line 263: w.timeFormat = s
setTimeFormat(s) ==
    /\ timeFormat' = s
    /\ UNCHANGED <<prefix, daily, maxSize>>
    /\ SetterFrame

\* A setter that flips the flag
setPrefix_Toggle ==
    /\ prefix' = ~prefix
    /\ UNCHANGED <<timeFormat, daily, maxSize>>
    /\ SetterFrame

\* Prefix, line 273: w.prefix = true
setPrefix ==
    /\ prefix' = TRUE
    /\ UNCHANGED <<timeFormat, daily, maxSize>>
    /\ SetterFrame

Daily ==
    /\ constructed = "ok" /\ lock = 0
    /\ setDaily
    /\ last' = NoCall
    /\ RestKept

MaxSize(s) ==
    /\ constructed = "ok" /\ lock = 0
    /\ setMaxSize(s)
    /\ last' = NoCall
    /\ RestKept

SetTimeFormat(s) ==
    /\ constructed = "ok" /\ lock = 0
    /\ setTimeFormat(s)
    /\ last' = NoCall
    /\ RestKept

Prefix ==
    /\ constructed = "ok" /\ lock = 0
    /\ setPrefix
    /\ last' = NoCall
    /\ RestKept

-----------------------------------------------------------------------------
(* The constructors, lines 179-234 *)

\* The paths a writer is made on
Filenames == {<<"a", ".", "l">>}

\* NewWriter, line 181: os.OpenFile(filename, os.O_RDWR|os.O_APPEND, 0600)
openFile(path, inj) ==
    IF inj = "open" \/ ~Exists(fs, path)
    THEN [err |-> "open", hit |-> inj = "open", h |-> NoHandle]
    ELSE [err |-> "nil", hit |-> FALSE, h |-> OpenHandle(TRUE)]

\* readCurrentSize, lines 225-234: the size of the file by Stat on the handle
readCurrentSize(path, h, inj) ==
    IF inj = "fstat" \/ ~h.open \/ ~Exists(fs, path)
    THEN [err |-> "fstat", hit |-> inj = "fstat", size |-> 0]
    ELSE [err |-> "nil", hit |-> FALSE, size |-> Len(fs[path])]

\* NewWriterFromFile, lines 201-214, as a result: the writer or the error
newWriterFromFile(path, h, inj) ==
    LET r == readCurrentSize(path, h, inj)
    IN [err |-> r.err, hit |-> r.hit, h |-> h, size |-> r.size]

\* NewWriter, lines 180-187, as a result
newWriter(path, inj) ==
    LET o == openFile(path, inj)
    IN IF o.err # "nil" THEN [err |-> o.err, hit |-> o.hit, h |-> NoHandle, size |-> 0]
       ELSE newWriterFromFile(path, o.h, inj)

\* The handles a caller passes: what os.OpenFile returns for the file at path,
\* with O_APPEND or without
Handles(path) == {OpenHandle(TRUE), OpenHandle(FALSE)}

\* The constructor `op` returned r. withCompression: `w.compress = true` follows,
\* whatever the error (lines 192-194, 219-221): on a nil writer it panics.
Constructed(op, path, r, withCompression) ==
    /\ constructed = "none"
    /\ r.hit => nfaults < MaxFaults
    /\ nfaults' = IF r.hit THEN nfaults + 1 ELSE nfaults
    /\ last' = [NoCall EXCEPT !.op = op, !.err = r.err, !.handle = r.h,
                              !.existed = Exists(fs, path),
                              !.prior = IF Exists(fs, path) THEN fs[path] ELSE <<>>]
    /\ IF r.err = "nil"
       THEN /\ constructed' = "ok"
            /\ filename' = path
            /\ file' = r.h
            /\ maxSize' = 0 - 1
            /\ startDate' = now
            /\ currentSize' = r.size
            /\ compress' = withCompression
       ELSE /\ constructed' = IF withCompression THEN "panic" ELSE "error"
            /\ UNCHANGED <<filename, file, maxSize, startDate, currentSize, compress>>
    /\ UNCHANGED <<ncalls, fs, now, tz, timeFormat, prefix, daily, lock, pc, call,
                   history, nwrites, nticks>>

ConstructorFaults == {"none", "open", "fstat"}

NewWriter(path, inj) ==
    LET r == newWriter(path, inj)
    IN /\ inj = "none" \/ r.hit
       /\ Constructed("NewWriter", path, r, FALSE)

NewWriterWithCompression(path, inj) ==
    LET r == newWriter(path, inj)
    IN /\ inj = "none" \/ r.hit
       /\ Constructed("NewWriterWithCompression", path, r, TRUE)

NewWriterFromFile(path, h, inj) ==
    LET r == newWriterFromFile(path, h, inj)
    IN /\ inj = "none" \/ r.hit
       /\ Constructed("NewWriterFromFile", path, r, FALSE)

NewWriterFromFileWithCompression(path, h, inj) ==
    LET r == newWriterFromFile(path, h, inj)
    IN /\ inj = "none" \/ r.hit
       /\ Constructed("NewWriterFromFileWithCompression", path, r, TRUE)

-----------------------------------------------------------------------------
(* The clock *)

\* A minute, a day, 31 days
Jumps == {1, MinutesPerDay, 31 * MinutesPerDay}

Tick(d) ==
    /\ constructed = "ok"
    /\ nticks < MaxTicks
    /\ now' = now + d
    /\ nticks' = nticks + 1
    /\ last' = NoCall
    /\ UNCHANGED <<ncalls, fs, tz, constructed, filename, file, currentSize, startDate,
                   timeFormat, prefix, daily, compress, maxSize, lock, pc, call,
                   history, nwrites, nfaults>>

-----------------------------------------------------------------------------
(* The specification *)

\* The goroutines of SpecConc
Threads == {1, 2}

\* A goroutine's call in progress: the method, its argument (size, layout or b),
\* and Write's position: the bytes of b written so far, which test called rotate
NoOp == [op |-> "none", size |-> 0, layout |-> <<>>, b |-> <<>>, done |-> 0,
         trigger |-> "none", err |-> "nil"]

\* What the file at a path holds before the program starts
InitContents == {<<7>>}

\* 2 January 2025, 23:00 UTC
StartTimes == {MinutesPerDay + 23 * 60}

\* UTC-5, UTC, UTC+2
Zones == {0 - 300, 0, 120}

Init ==
    /\ \E S \in SUBSET Filenames : fs \in [S -> InitContents]
    /\ now \in StartTimes
    /\ tz \in Zones
    /\ constructed = "none"
    /\ filename = <<>>
    /\ file = NoHandle
    /\ currentSize = 0
    /\ startDate = 0
    /\ timeFormat = <<>>
    /\ prefix = FALSE
    /\ daily = FALSE
    /\ compress = FALSE
    /\ maxSize = 0 - 1
    /\ lock = 0
    /\ pc = [t \in Threads |-> "idle"]
    /\ call = [t \in Threads |-> NoOp]
    /\ last = NoCall
    /\ history = <<>>
    /\ nwrites = 0
    /\ nticks = 0
    /\ nfaults = 0
    /\ ncalls = 0

\* One caller, the filesystem working: a constructor, then setters, Writes and
\* the passing of time. The caller sets the daily mode and the naming before its
\* first Write, and the threshold at any time.
Next ==
    \/ \E path \in Filenames : NewWriter(path, "none")
    \/ \E path \in Filenames : NewWriterWithCompression(path, "none")
    \/ \E path \in Filenames \cap DOMAIN fs : \E h \in Handles(path) :
           NewWriterFromFile(path, h, "none")
    \/ \E path \in Filenames \cap DOMAIN fs : \E h \in Handles(path) :
           NewWriterFromFileWithCompression(path, h, "none")
    \/ nwrites = 0 /\ Daily
    \/ \E s \in MaxSizes : MaxSize(s)
    \/ \E s \in Layouts : nwrites = 0 /\ SetTimeFormat(s)
    \/ nwrites = 0 /\ Prefix
    \/ \E b \in Buffers : Write(b, NoFault)
    \/ \E d \in Jumps : Tick(d)

Spec == Init /\ [][Next]_vars

\* The same caller with a filesystem that fails: any one step of a constructor,
\* of rotate or of the file write may return an error
NextFaults ==
    \/ \E path \in Filenames, inj \in ConstructorFaults : NewWriter(path, inj)
    \/ \E path \in Filenames, inj \in ConstructorFaults :
           NewWriterWithCompression(path, inj)
    \/ \E path \in Filenames \cap DOMAIN fs, inj \in ConstructorFaults :
           \E h \in Handles(path) : NewWriterFromFile(path, h, inj)
    \/ \E path \in Filenames \cap DOMAIN fs, inj \in ConstructorFaults :
           \E h \in Handles(path) : NewWriterFromFileWithCompression(path, h, inj)
    \/ nwrites = 0 /\ Daily
    \/ \E s \in MaxSizes : MaxSize(s)
    \/ \E b \in Buffers : \E inj \in WriteFaults(b) : Write(b, inj)
    \/ \E d \in Jumps : Tick(d)

SpecFaults == Init /\ [][NextFaults]_vars

-----------------------------------------------------------------------------
(* makeDestName on its own, called as TestMakeDestName calls it: on a       *)
(* writer whose fields are given, with no file behind it.                   *)

\* The filenames: an extension, none, a dot in a directory only, a leading
\* dot, two dots, a trailing dot
NamePaths ==
    { <<"/", "v", "/", "a", ".", "l">>, <<"a">>, <<"d", ".", "x", "/", "a">>,
      <<".", "a">>, <<"a", ".", "b", ".", "c">>, <<"a", ".">> }

\* The start dates: 1 January 00:00, 2 January 23:00, 10 February 09:05 (UTC)
NameDates == {0, MinutesPerDay + 23 * 60, 40 * MinutesPerDay + 9 * 60 + 5}

InitNames ==
    /\ fs = <<>>
    /\ now \in StartTimes
    /\ tz \in Zones
    /\ constructed = "ok"
    /\ filename \in NamePaths
    /\ file = NoHandle
    /\ currentSize = 0
    /\ startDate \in NameDates
    /\ timeFormat \in Layouts
    /\ prefix \in BOOLEAN
    /\ daily = FALSE
    /\ compress = FALSE
    /\ maxSize = 0 - 1
    /\ lock = 0
    /\ pc = [t \in Threads |-> "idle"]
    /\ call = [t \in Threads |-> NoOp]
    /\ last = NoCall
    /\ history = <<>>
    /\ nwrites = 0
    /\ nticks = 0
    /\ nfaults = 0
    /\ ncalls = 0

\* n := rw.makeDestName(): the result is kept in last.b
CallMakeDestName ==
    /\ ncalls < MaxCalls
    /\ ncalls' = ncalls + 1
    /\ last' = [NoCall EXCEPT !.op = "makeDestName",
                              !.b = makeDestName(filename, startDate, timeFormat,
                                                 prefix)]
    /\ UNCHANGED <<fs, now, tz, constructed, filename, file, currentSize,
                   startDate, timeFormat, prefix, daily, compress, maxSize, lock,
                   pc, call, history, nwrites, nticks, nfaults>>

\* rw.prefix = true, as TestMakeDestName sets it between two calls
SetPrefixField ==
    /\ ~prefix
    /\ prefix' = TRUE
    /\ last' = NoCall
    /\ UNCHANGED <<fs, now, tz, constructed, filename, file, currentSize,
                   startDate, timeFormat, daily, compress, maxSize, lock, pc,
                   call, history, nwrites, nticks, nfaults, ncalls>>

NextNames == CallMakeDestName \/ SetPrefixField

SpecNames == InitNames /\ [][NextNames]_vars

-----------------------------------------------------------------------------
(* Several goroutines on one writer.  Each method is cut where another      *)
(* goroutine can run in between: at the lock, at each test of Write, at     *)
(* rotate's two halves (the old file closed and renamed away; the new file  *)
(* opened and installed), at each byte the file write puts out, at the      *)
(* count, at the deferred Unlock.                                           *)
(*   pc[t]  idle, lock, set, day, size, retire, install, write, unlock      *)

\* The calls the goroutines make
Ops ==
    {[NoOp EXCEPT !.op = "Write", !.b = b] : b \in Buffers}
    \cup {[NoOp EXCEPT !.op = "MaxSize", !.size = s] : s \in MaxSizes}
    \cup {[NoOp EXCEPT !.op = "TimeFormat", !.layout = l] : l \in Layouts}
    \cup {[NoOp EXCEPT !.op = "Daily"], [NoOp EXCEPT !.op = "Prefix"]}

Goto(t, label) == pc' = [pc EXCEPT ![t] = label]

\* Goroutine t calls method c.op
Enter(t, c) ==
    /\ constructed = "ok"
    /\ pc[t] = "idle"
    /\ ncalls < MaxCalls
    /\ ncalls' = ncalls + 1
    /\ call' = [call EXCEPT ![t] = c]
    /\ Goto(t, "lock")
    /\ UNCHANGED <<fs, now, tz, constructed, filename, file, currentSize,
                   startDate, timeFormat, prefix, daily, compress, maxSize, lock,
                   last, history, nwrites, nticks, nfaults>>

\* A lock taken without waiting for its holder
Acquire_NoWait(t) == lock' = t

\* sync.Mutex.Lock: returns once the mutex is free, holding it
Acquire(t) == lock = 0 /\ lock' = t

\* w.lock.Lock(), the first statement of Write and of every setter
Lock(t) ==
    /\ pc[t] = "lock"
    /\ Acquire(t)
    /\ Goto(t, IF call[t].op = "Write" THEN "day" ELSE "set")
    /\ UNCHANGED <<ncalls, fs, now, tz, constructed, filename, file, currentSize,
                   startDate, timeFormat, prefix, daily, compress, maxSize, call,
                   last, history, nwrites, nticks, nfaults>>

\* The assignment of a setter: lines 243, 253, 263, 273
SetField(t) ==
    /\ pc[t] = "set"
    /\ daily' = (daily \/ call[t].op = "Daily")
    /\ maxSize' = IF call[t].op = "MaxSize" THEN call[t].size ELSE maxSize
    /\ timeFormat' = IF call[t].op = "TimeFormat" THEN call[t].layout ELSE timeFormat
    /\ prefix' = (prefix \/ call[t].op = "Prefix")
    /\ Goto(t, "unlock")
    /\ UNCHANGED <<ncalls, fs, now, tz, constructed, filename, file, currentSize,
                   startDate, compress, lock, call, last, history, nwrites,
                   nticks, nfaults>>

\* Write, lines 282-284
DayTest(t) ==
    /\ pc[t] = "day"
    /\ IF DayTrigger(Begin)
       THEN /\ call' = [call EXCEPT ![t].trigger = "day"]
            /\ Goto(t, "retire")
       ELSE /\ call' = call
            /\ Goto(t, "size")
    /\ UNCHANGED <<ncalls, fs, now, tz, constructed, filename, file, currentSize,
                   startDate, timeFormat, prefix, daily, compress, maxSize, lock,
                   last, history, nwrites, nticks, nfaults>>

\* Write, lines 291-292
SizeTest(t) ==
    /\ pc[t] = "size"
    /\ IF SizeTrigger(Begin)
       THEN /\ call' = [call EXCEPT ![t].trigger = "size"]
            /\ Goto(t, "retire")
       ELSE /\ call' = call
            /\ Goto(t, "write")
    /\ UNCHANGED <<ncalls, fs, now, tz, constructed, filename, file, currentSize,
                   startDate, timeFormat, prefix, daily, compress, maxSize, lock,
                   last, history, nwrites, nticks, nfaults>>

\* rotate, lines 307-336: the old file closed, renamed away and compressed.
\* When it fails Write returns (lines 285-287, 293-295).
Retire(t) ==
    /\ pc[t] = "retire"
    /\ LET s == retire(Begin, DestName(Begin), "none")
       IN /\ fs' = s.fs
          /\ file' = s.file
          /\ startDate' = s.startDate
          /\ call' = [call EXCEPT ![t].err = s.err]
          /\ Goto(t, IF s.err = "nil" THEN "install" ELSE "unlock")
    /\ UNCHANGED <<ncalls, now, tz, constructed, filename, currentSize, timeFormat,
                   prefix, daily, compress, maxSize, lock, last, history, nwrites,
                   nticks, nfaults>>

\* rotate, lines 338-346: the new file opened and installed; back in Write
Install(t) ==
    /\ pc[t] = "install"
    /\ LET s == install(Begin, "none")
       IN /\ fs' = s.fs
          /\ file' = s.file
          /\ currentSize' = s.currentSize
    /\ Goto(t, IF call[t].trigger = "day" THEN "size" ELSE "write")
    /\ UNCHANGED <<ncalls, now, tz, constructed, filename, startDate, timeFormat, prefix,
                   daily, compress, maxSize, lock, call, last, history, nwrites,
                   nticks, nfaults>>

\* Write, line 299: w.file.Write(b) puts out the next byte of b, or fails on a
\* handle that is closed
WriteByte(t) ==
    /\ pc[t] = "write"
    /\ call[t].done < Len(call[t].b)
    /\ IF ~file.open \/ ~Exists(fs, filename)
       THEN /\ call' = [call EXCEPT ![t].err = "write"]
            /\ Goto(t, "unlock")
            /\ UNCHANGED <<fs, file>>
       ELSE /\ LET s == WriteBytes(Begin, <<call[t].b[call[t].done + 1]>>, 1, FALSE)
               IN fs' = s.fs /\ file' = s.file
            /\ call' = [call EXCEPT ![t].done = call[t].done + 1]
            /\ pc' = pc
    /\ UNCHANGED <<ncalls, now, tz, constructed, filename, currentSize, startDate,
                   timeFormat, prefix, daily, compress, maxSize, lock, last,
                   history, nwrites, nticks, nfaults>>

\* Write, line 300: w.currentSize += int64(n), once w.file.Write has returned
AddCount(t) ==
    /\ pc[t] = "write"
    /\ call[t].done = Len(call[t].b)
    /\ currentSize' = currentSize + call[t].done
    /\ Goto(t, "unlock")
    /\ UNCHANGED <<ncalls, fs, now, tz, constructed, filename, file, startDate,
                   timeFormat, prefix, daily, compress, maxSize, lock, call, last,
                   history, nwrites, nticks, nfaults>>

\* defer w.lock.Unlock(), and the return
Unlock(t) ==
    /\ pc[t] = "unlock"
    /\ lock' = 0
    /\ call' = [call EXCEPT ![t] = NoOp]
    /\ Goto(t, "idle")
    /\ UNCHANGED <<ncalls, fs, now, tz, constructed, filename, file, currentSize,
                   startDate, timeFormat, prefix, daily, compress, maxSize, last,
                   history, nwrites, nticks, nfaults>>

NextConc ==
    \/ \E path \in Filenames : NewWriter(path, "none")
    \/ \E path \in Filenames : NewWriterWithCompression(path, "none")
    \/ \E t \in Threads : \E c \in Ops : Enter(t, c)
    \/ \E t \in Threads : Lock(t)
    \/ \E t \in Threads : SetField(t)
    \/ \E t \in Threads : DayTest(t)
    \/ \E t \in Threads : SizeTest(t)
    \/ \E t \in Threads : Retire(t)
    \/ \E t \in Threads : Install(t)
    \/ \E t \in Threads : WriteByte(t)
    \/ \E t \in Threads : AddCount(t)
    \/ \E t \in Threads : Unlock(t)
    \/ Tick(MinutesPerDay)

SpecConc == Init /\ [][NextConc]_vars

-----------------------------------------------------------------------------
(* The setters on a writer just made: up to MaxSetterCalls calls, in any    *)
(* order, with any values, each noted in history.                           *)

\* The setter calls
SetterOps == {c \in Ops : c.op # "Write"}

\* The assignment of setter call c
setField(c) ==
    CASE c.op = "Daily" -> setDaily
      [] c.op = "MaxSize" -> setMaxSize(c.size)
      [] c.op = "TimeFormat" -> setTimeFormat(c.layout)
      [] c.op = "Prefix" -> setPrefix

\* A setter is called, runs under the lock and returns
CallSetter(c) ==
    /\ constructed = "ok" /\ lock = 0
    /\ Len(history) < MaxSetterCalls
    /\ setField(c)
    /\ history' = Append(history, c)
    /\ last' = NoCall
    /\ UNCHANGED <<ncalls, now, tz, constructed, lock, pc, call, nwrites,
                   nticks, nfaults>>

NextSetters ==
    \/ \E path \in Filenames : NewWriter(path, "none")
    \/ \E path \in Filenames : NewWriterWithCompression(path, "none")
    \/ \E c \in SetterOps : CallSetter(c)

SpecSetters == Init /\ [][NextSetters]_vars

-----------------------------------------------------------------------------
(* Properties of one caller's run, Spec.  `last` is the call that has just  *)
(* returned: a setter or a tick clears it, so a formula on last.op =        *)
(* "Write" speaks of the state immediately after that Write.                *)

JustWrote == last.op = "Write"

\* The rotations of the last Write that were called for `trigger`
RotatedOn(trigger) == {i \in 1..Len(last.rots) : last.rots[i].trigger = trigger}

\* Where rotation r left the content: the destination name, or that name + ".gz"
StoredAt(r) == IF r.gz THEN r.dest \o <<".gz">> ELSE r.dest

\* What rotation r's file holds now, uncompressed; Absent if there is none
StoredContent(r) ==
    IF ~Exists(fs, StoredAt(r)) THEN Absent
    ELSE IF r.gz THEN (IF IsGzip(fs[StoredAt(r)]) THEN Gunzip(fs[StoredAt(r)])
                       ELSE NotGzip)
    ELSE fs[StoredAt(r)]

\* C1 as stated: with a threshold M >= 0 and no failure, a Write rotates on size
\* exactly when the currentSize before the Write is >= M; right after such a
\* Write the file at filename holds exactly the buffer, and the file at the
\* rotation's destination name holds exactly what the active file held before.
C1_AsStated ==
    (JustWrote /\ maxSize >= 0 /\ last.err = "nil") =>
        /\ (RotatedOn("size") # {}) <=> (last.preSize >= maxSize)
        /\ \A i \in RotatedOn("size") :
               /\ fs[filename] = last.b
               /\ Exists(fs, last.rots[i].dest)
               /\ fs[last.rots[i].dest] = last.prior

\* C1, amended: with a threshold M >= 0 and no failure, a Write in which the
\* day trigger does not fire rotates on size exactly when the currentSize before
\* the Write is >= M, and a Write in which the day trigger fires rotates on size
\* as well exactly when M = 0.  Right after a Write that rotated on size the file
\* at filename holds exactly the buffer, and what the active file held as the
\* size rotation began (its content before the Write if the day trigger did not
\* fire, nothing if it did) is at that rotation's destination name: as it was
\* when compression is off, gzip-compressed at that name + ".gz", with no file
\* at the name itself, when compression is on.
C1_SizeTrigger ==
    (JustWrote /\ maxSize >= 0 /\ last.err = "nil") =>
        /\ (RotatedOn("day") = {}) =>
               ((RotatedOn("size") # {}) <=> (last.preSize >= maxSize))
        /\ (RotatedOn("day") # {}) =>
               ((RotatedOn("size") # {}) <=> (maxSize = 0))
        /\ \A i \in RotatedOn("size") :
               /\ fs[filename] = last.b
               /\ last.rots[i].prior =
                      (IF RotatedOn("day") = {} THEN last.prior ELSE <<>>)
               /\ StoredContent(last.rots[i]) = last.rots[i].prior
               /\ compress <=> ~Exists(fs, last.rots[i].dest)

\* C1's case: a Write has just rotated on size alone, with a non-empty file
\* rotated away
C1_Witness ==
    /\ JustWrote /\ last.err = "nil" /\ maxSize > 0
    /\ RotatedOn("size") = {1} /\ RotatedOn("day") = {}
    /\ last.prior # <<>> /\ last.preSize >= maxSize
    /\ ~compress

\* C2 as stated: no rotation replaces or removes the file an earlier rotation of
\* the writer produced: each rotation's file is there and holds what was rotated
C2_RotatedContentKept ==
    \A i \in 1..Len(history) : StoredContent(history[i]) = history[i].prior

\* C3 as stated: a Write for which no trigger fires and that does not fail makes
\* the active file its former content followed by b, and returns len(b)
C3_AppendsBuffer ==
    (JustWrote /\ last.rots = <<>> /\ last.err = "nil") =>
        /\ Len(fs[filename]) = Len(last.prior) + Len(last.b)
        /\ fs[filename] = last.prior \o last.b
        /\ last.n = Len(last.b)

\* C5: with compression on, as a successful rotation ends there is a file at
\* destination + ".gz", none at the destination, and gunzip of the .gz file gives
\* what the active file held before that rotation
C5_CompressionRoundTrip ==
    JustWrote =>
        \A i \in 1..Len(last.rots) :
            (last.rots[i].err = "nil" /\ compress) =>
                /\ last.rots[i].gzAfter # Absent
                /\ last.rots[i].plainAfter = Absent
                /\ IsGzip(last.rots[i].gzAfter)
                /\ Gunzip(last.rots[i].gzAfter) = last.rots[i].prior

\* C5's case: a compressed rotation of a file of several bytes, of which the
\* stored form differs from the content
C5_Witness ==
    /\ JustWrote /\ compress /\ Len(last.rots) = 1
    /\ last.rots[1].err = "nil"
    /\ Len(last.rots[1].prior) >= 2
    /\ last.rots[1].gzAfter # last.rots[1].prior

CompressionConstructors ==
    {"NewWriterWithCompression", "NewWriterFromFileWithCompression"}

Constructors == CompressionConstructors \cup {"NewWriter", "NewWriterFromFile"}

\* C6 as stated: a constructor that cannot open or stat the file returns the
\* error and no writer; the compression variants do as the plain ones, and none
\* crashes
C6_ConstructorFailureReturnsError ==
    (last.op \in Constructors /\ last.err # "nil") => constructed = "error"

\* C7 as stated: NewWriter on a path where no file exists creates an empty file
\* there and returns a writer with currentSize = 0; on an existing file it
\* returns a writer whose currentSize is the file's size
C7_NewWriterOpensOrCreates ==
    (last.op = "NewWriter") =>
        /\ constructed = "ok" /\ last.err = "nil"
        /\ Exists(fs, filename)
        /\ IF last.existed THEN currentSize = Len(last.prior) /\ fs[filename] = last.prior
           ELSE currentSize = 0 /\ fs[filename] = <<>>

\* C8 as stated: in daily mode a Write issued on a calendar date other than
\* startDate's rotates before it writes
C8_DailyFiresOnDateChange ==
    (JustWrote /\ daily /\ last.dayChanged) => RotatedOn("day") # {}

\* The day rotations before the last call that happened on today's date
EarlierDayRotationsToday ==
    {i \in 1..(Len(history) - Len(Succeeded(last.rots))) :
        history[i].trigger = "day" /\ Date(history[i].at) = Date(now)}

\* C9 as stated: in daily mode with size rotation disabled, once a Write has
\* rotated because the day changed, no later Write on that calendar day rotates
C9_DailyFiresOncePerDay ==
    (JustWrote /\ daily /\ maxSize < 0 /\ EarlierDayRotationsToday # {}) =>
        last.rots = <<>>

\* C10 as stated: every Write(b), failed or not, returns a count n with
\* 0 <= n <= len(b)
C10_CountInRange ==
    JustWrote => (0 <= last.n /\ last.n <= Len(last.b))

\* C11: a Write made while maxSize is negative and daily mode is off does not
\* rotate: it calls rotate not once, no name appears on or disappears from the
\* disk, the handle stays the one it was (open, same mode), and currentSize does
\* not decrease
C11_NoRotationWhenDisabled ==
    [][(nwrites' = nwrites + 1 /\ maxSize < 0 /\ ~daily) =>
           /\ last'.rots = <<>>
           /\ DOMAIN fs' = DOMAIN fs
           /\ file'.open = file.open /\ file'.append = file.append
           /\ currentSize' >= currentSize
           /\ startDate' = startDate]_vars

\* C11's case: with rotation disabled a Write has just been made on a file
\* already larger than every threshold used, and it did not rotate
C11_Witness ==
    /\ JustWrote /\ maxSize < 0 /\ ~daily
    /\ last.preSize > 2
    /\ last.rots = <<>>

\* C13 as stated: whenever a writer exists and no Write is in progress,
\* currentSize is the size on disk of the writer's active file
C13_CurrentSizeIsFileSize ==
    constructed = "ok" =>
        /\ Exists(fs, filename)
        /\ currentSize = Len(fs[filename])

\* Call c is a Write that returned the error of a failed rotate
RotateFailed(c) ==
    c.op = "Write" /\ c.rots # <<>> /\ c.rots[Len(c.rots)].err # "nil"

\* The writer holds a handle that is closed
Broken == constructed = "ok" /\ ~file.open

\* C14: a Write that returns the error of a failed rotate leaves the writer with
\* a closed handle; no call, setter or passing of time gives it an open one
\* again; and every Write made in that condition returns an error and changes
\* no file.  So after a failed rotation every later Write fails and appends
\* nothing.
C14_RotationFailureAbsorbing ==
    [][/\ (nwrites' = nwrites + 1 /\ RotateFailed(last')) => Broken'
       /\ Broken => Broken'
       /\ (Broken /\ nwrites' = nwrites + 1) =>
              (last'.err # "nil" /\ fs' = fs)]_vars

\* C14's case: after a failed rotation and a setter that disabled rotation, a
\* Write has been made; it called rotate not once and failed at the file write
C14_Witness ==
    /\ JustWrote /\ ~last.handle.open
    /\ maxSize < 0 /\ ~daily
    /\ last.rots = <<>> /\ last.err = "write"

\* 00:00 of the local calendar day of instant t
Midnight(t) == t - (Local(t) % MinutesPerDay)

\* C15 as stated: after a Write that rotated without failure, startDate is the
\* instant of the rotation when daily mode is off, and that instant truncated to
\* midnight when daily mode is on
C15_StartDateAfterRotation ==
    (JustWrote /\ last.err = "nil" /\ last.rots # <<>>) =>
        startDate = IF daily THEN Midnight(last.rots[Len(last.rots)].at)
                    ELSE last.rots[Len(last.rots)].at

\* C16 as stated: when the file write of a Write that did not rotate returns an
\* error, currentSize is after the call what it was before
C16_AsStated ==
    (JustWrote /\ last.err = "write" /\ last.rots = <<>>) =>
        currentSize = last.preSize

\* C16, amended: when the file write of a Write returns an error together with
\* a count n, 0 <= n < len(b), currentSize is after the call what it was as the
\* file write began (its value before the call, or 0 if the call rotated) plus
\* n: unchanged when nothing was written, increased by the bytes of a partial
\* write
C16_CountFollowsBytesWritten ==
    (JustWrote /\ last.err = "write") =>
        /\ 0 <= last.n /\ last.n < Len(last.b)
        /\ currentSize = (IF last.rots = <<>> THEN last.preSize ELSE 0) + last.n

\* C16's case: a file write has failed after part of the buffer was written
C16_Witness ==
    /\ JustWrote /\ last.err = "write"
    /\ last.n > 0 /\ last.rots = <<>>
    /\ currentSize = last.preSize + last.n

\* The steps of rotate before anything on disk or in the writer is changed
EarlySteps == {"close", "stat", "rename"}

\* Call c is a Write whose last rotate failed at an early step
FailedEarly(c) ==
    RotateFailed(c) /\ c.rots[Len(c.rots)].err \in EarlySteps

\* The policy fields are left as they are
PolicyKept == UNCHANGED <<timeFormat, prefix, daily, compress, maxSize>>

\* C17 as stated: after a Write in which rotate failed at close, stat or rename
\* the file reference, currentSize, startDate and the policy fields are what
\* they were before the Write (stated of the processes whose local zone is UTC,
\* where the day test and the truncation of startDate read the same day)
C17_AsStated ==
    [][(nwrites' = nwrites + 1 /\ FailedEarly(last') /\ tz = 0) =>
           /\ file' = [file EXCEPT !.open = FALSE]
           /\ currentSize' = currentSize
           /\ startDate' = startDate
           /\ PolicyKept]_vars

\* C17, amended: after a Write in which a rotate call failed at close, stat or
\* rename, the file reference (the same handle, now closed), currentSize,
\* startDate, the policy fields and every file are what they were as that
\* rotate call began: that is, before the Write when it was the Write's first
\* rotate call, and as the Write's earlier, successful rotation left them when
\* it was the second.  The buffer is written to no file.
C17_EarlyFailureKeepsState ==
    [][(nwrites' = nwrites + 1 /\ FailedEarly(last')) =>
           /\ file' = [last'.rots[Len(last'.rots)].before.file EXCEPT !.open = FALSE]
           /\ currentSize' = last'.rots[Len(last'.rots)].before.currentSize
           /\ startDate' = last'.rots[Len(last'.rots)].before.startDate
           /\ fs' = last'.rots[Len(last'.rots)].before.fs
           /\ PolicyKept
           /\ Len(last'.rots) = 1 =>
                  last'.rots[1].before =
                      [fs |-> fs, file |-> file, currentSize |-> currentSize,
                       startDate |-> startDate]
           /\ Len(last'.rots) = 2 => last'.rots[1].err = "nil"]_vars

\* C17's case: a Write has rotated on the day, and its second rotate call, on
\* size, failed at the rename
C17_Witness ==
    /\ JustWrote /\ Len(last.rots) = 2
    /\ last.rots[1].err = "nil" /\ last.rots[2].err = "rename"
    /\ last.preSize > 0 /\ currentSize = 0

\* C18: in a Write that does not fail, rotate is called on the day test exactly
\* when daily mode is on and the day of the month differs from startDate's, and
\* a rotation on the day test comes before one on the size test; the Write
\* rotates at most once when maxSize is not 0; with maxSize = 0 it rotates on
\* the size test always, so once, or twice when the day test fired as well
C18_RotationsPerWrite ==
    (JustWrote /\ last.err = "nil") =>
        /\ (RotatedOn("day") # {}) <=> (daily /\ ~last.sameDayOfMonth)
        /\ RotatedOn("day") \subseteq {1}
        /\ RotatedOn("size") \subseteq {Len(last.rots)}
        /\ Len(last.rots) <= 2
        /\ maxSize # 0 => Len(last.rots) <= 1
        /\ maxSize = 0 =>
               /\ RotatedOn("size") # {}
               /\ Len(last.rots) = (IF RotatedOn("day") # {} THEN 2 ELSE 1)

\* C18's case: with a threshold of 2 and a file of at least 2 bytes, a Write
\* has rotated on the day test and not again on the size test
C18_Witness ==
    /\ JustWrote /\ last.err = "nil"
    /\ maxSize = 2 /\ last.preSize >= 2
    /\ Len(last.rots) = 1 /\ last.rots[1].trigger = "day"

-----------------------------------------------------------------------------
(* Properties of makeDestName, SpecNames *)

\* No dot in the last element of path fn: every dot is followed by a separator
NoExtension(fn) ==
    \A i \in 1..Len(fn) : fn[i] = "." => \E j \in (i + 1)..Len(fn) : fn[j] = "/"

\* The last k characters of fn are the extension of its last element: none
\* when that element has no dot, else from its last dot on
ExtensionLength(fn, k) ==
    IF k = 0 THEN NoExtension(fn)
    ELSE /\ fn[Len(fn) - k + 1] = "."
         /\ \A i \in (Len(fn) - k + 2)..Len(fn) : fn[i] \notin {".", "/"}

\* The effective pattern
Pattern == IF timeFormat # <<>> THEN timeFormat ELSE TimeFormat

\* C12: a call of makeDestName changes no field of the writer, gives the same
\* name as the call before it on the same fields, and the name is filename +
\* "." + format(startDate, P) with prefix off, base + "." + format(startDate, P)
\* + ext with prefix on, for the one split filename = base + ext in which ext is
\* the extension of the last path element
C12_DestinationNaming ==
    [][last'.op = "makeDestName" =>
           /\ UNCHANGED <<filename, file, currentSize, startDate, timeFormat,
                          prefix, daily, compress, maxSize, fs>>
           /\ last.op = "makeDestName" => last'.b = last.b
           /\ \E k \in 0..Len(filename) : ExtensionLength(filename, k)
           /\ \A k \in 0..Len(filename) :
                  ExtensionLength(filename, k) =>
                      last'.b =
                          IF prefix
                          THEN SubSeq(filename, 1, Len(filename) - k)
                               \o <<".">> \o Format(startDate, Pattern)
                               \o SubSeq(filename, Len(filename) - k + 1,
                                         Len(filename))
                          ELSE filename \o <<".">> \o Format(startDate, Pattern)
      ]_vars

\* C12's case: with prefix on, a custom pattern and a filename with a dotted
\* directory-free extension, the name has been made and is not filename + "." +
\* time
C12_Witness ==
    /\ last.op = "makeDestName"
    /\ prefix /\ timeFormat # <<>>
    /\ filename = <<"/", "v", "/", "a", ".", "l">>
    /\ last.b = <<"/", "v", "/", "a", ".", "2025", "__", "02", "__", "10", ".", "l">>

-----------------------------------------------------------------------------
(* Properties of the setters, SpecSetters *)

\* The calls of setter `op` made so far
Calls(op) == {i \in 1..Len(history) : history[i].op = op}

\* The policy is what the set of calls made so far says, whatever their order
\* and number: a flag is on exactly when its setter was called; a value is the
\* one its setter was called with, when it was called with one value only, and
\* the constructor's when it was not called
PolicyFromCalls ==
    /\ daily = (Calls("Daily") # {})
    /\ prefix = (Calls("Prefix") # {})
    /\ Calls("MaxSize") = {} => maxSize = 0 - 1
    /\ Calls("TimeFormat") = {} => timeFormat = <<>>
    /\ \A v \in MaxSizes :
           (Calls("MaxSize") # {} /\ \A i \in Calls("MaxSize") : history[i].size = v)
               => maxSize = v
    /\ \A l \in Layouts :
           (Calls("TimeFormat") # {}
                /\ \A i \in Calls("TimeFormat") : history[i].layout = l)
               => timeFormat = l

\* C19: a setter call changes no file and no field of the writer other than
\* policy fields, and of those only its own; and after any sequence of setter
\* calls on a new writer the policy is the one given by the set of calls, so
\* that a call repeated with its value, or the calls made in another order,
\* give the same policy
C19_SetterIdempotenceCommutativity ==
    [][(history' # history) =>
           /\ UNCHANGED <<fs, filename, file, currentSize, startDate, compress>>
           /\ \A c \in SetterOps :
                  history' = Append(history, c) =>
                      /\ c.op # "Daily" => daily' = daily
                      /\ c.op # "MaxSize" => maxSize' = maxSize
                      /\ c.op # "TimeFormat" => timeFormat' = timeFormat
                      /\ c.op # "Prefix" => prefix' = prefix
           /\ PolicyFromCalls']_vars

\* C19's case: all four setters have been called, MaxSize last and Prefix
\* first, on a writer whose file is not empty
C19_Witness ==
    /\ Len(history) = 4
    /\ history[1].op = "Prefix" /\ history[4].op = "MaxSize"
    /\ Calls("Daily") # {} /\ Calls("TimeFormat") # {}
    /\ maxSize = 2 /\ timeFormat = DateLayout /\ currentSize > 0

-----------------------------------------------------------------------------
(* Properties of the goroutines' runs, SpecConc *)

\* Goroutine t is past Lock and before the return of Unlock
InBody(t) == pc[t] \in {"set", "day", "size", "retire", "install", "write", "unlock"}

\* The bytes in the file at name; of a .gz file, the bytes it decompresses to
Content(name) ==
    IF name[Len(name)] = ".gz" /\ IsGzip(fs[name]) THEN Gunzip(fs[name])
    ELSE fs[name]

\* A goroutine is writing b to the file at name and has put out `done` bytes
Writing(name, b, done) ==
    \E t \in Threads :
        /\ pc[t] = "write" /\ call[t].b = b /\ call[t].done = done
        /\ name = filename

\* In every file the bytes 2, 3 of the buffer <<2, 3>> are next to each other:
\* a 2 is followed by its 3, or is the last byte of the file being written
WholeBuffers ==
    \A name \in DOMAIN fs : \A i \in 1..Len(Content(name)) :
        /\ Content(name)[i] = 2 =>
               IF i < Len(Content(name)) THEN Content(name)[i + 1] = 3
               ELSE Writing(name, <<2, 3>>, 1)
        /\ Content(name)[i] = 3 => (i > 1 /\ Content(name)[i - 1] = 2)

\* C4: at most one goroutine is inside the body of Write or of a setter, and it
\* holds the lock; while a Write is between rotate's close of the old file and
\* its install of the new one no other goroutine is at its file write or at a
\* setter's assignment; a goroutine at its file write finds the handle open; and
\* the bytes of two Writes are not interleaved in any file
C4_MutualExclusion ==
    /\ \A t, u \in Threads : (InBody(t) /\ InBody(u)) => t = u
    /\ \A t \in Threads : InBody(t) => lock = t
    /\ \A u \in Threads : pc[u] = "install" =>
           /\ ~file.open
           /\ \A t \in Threads \ {u} : pc[t] \notin {"set", "write"}
    /\ \A t \in Threads : pc[t] = "write" => file.open
    /\ WholeBuffers

\* C4's case: a Write has closed the old file and not yet installed the new one
\* while another goroutine's Write waits at the lock
C4_Witness ==
    \E t, u \in Threads :
        /\ t # u
        /\ pc[u] = "install" /\ ~file.open
        /\ pc[t] = "lock" /\ call[t].op = "Write"

=============================================================================
